---------------------------- MODULE Spec2Model ----------------------------
(***************************************************************************)
(* Model of the transaction engine (src/src/engine.rs, src/src/types.rs).  *)
(*                                                                         *)
(* Two specifications:                                                     *)
(*   Spec     the ledger state machine: process_transaction applied to a   *)
(*            ledger that starts as HashMap::new(), one record per step,   *)
(*            as the unit tests of engine.rs drive it;                     *)
(*   SpecRun  the batch: run_transactions on an input file (validation,    *)
(*            reading, processing in order, publishing).                   *)
(*                                                                         *)
(* Decimal amounts are exact (rust_decimal), so an amount is modelled as   *)
(* an integer number of the smallest unit; Option<T> is modelled as a      *)
(* sequence of length at most one (<<>> is None, <<v>> is Some(v)); a      *)
(* HashMap is a function whose DOMAIN is its key set.                      *)
(***************************************************************************)
EXTENDS Integers, Sequences, FiniteSets, TLC

\* ------------------------------------------------------------------ bounds
\* Number of records applied to the ledger in one behaviour of Spec.
MaxRecords == 4
\* Largest amount a record carries.  The reader accepts any decimal, so the
\* amounts range over -1 .. MaxAmount: a negative one, zero and positive ones.
MaxAmount == 2
\* Number of rows of the input file in one behaviour of SpecRun.
MaxRows == 3
\* Number of records applied to one transaction in one behaviour of
\* SpecLifecycle.
MaxLifecycle == 5

Clients == {1, 2}
TxIds == {1, 2}
Amounts == (0 - 1) .. MaxAmount

\* ------------------------------------------------------------------- types
NoneV == <<>>
Some(v) == <<v>>
IsSome(o) == Len(o) = 1
Unwrap(o) == o[1]

DEPOSIT == "DEPOSIT"
WITHDRAWAL == "WITHDRAWAL"
CHARGEBACK == "CHARGEBACK"
DISPUTE == "DISPUTE"
RESOLVE == "RESOLVE"
TransactionType == {DEPOSIT, WITHDRAWAL, CHARGEBACK, DISPUTE, RESOLVE}

Transaction(ty, c, tx, amt) ==
    [transaction_type |-> ty, client_id |-> c, transaction_id |-> tx,
     transaction_amount |-> amt]

\* HashMap::new, HashMap::insert, HashMap::remove, HashMap::get
EmptyMap == <<>>
MapInsert(m, k, v) == [x \in (DOMAIN m) \cup {k} |-> IF x = k THEN v ELSE m[x]]
MapRemove(m, k) == [x \in (DOMAIN m) \ {k} |-> m[x]]
MapGet(m, k) == IF k \in DOMAIN m THEN Some(m[k]) ELSE NoneV

\* The Account process_transaction builds when the client has none yet.
NewAccount(c) ==
    [client_id |-> c, available |-> 0, held |-> 0, locked |-> FALSE,
     settled_transactions_log |-> EmptyMap,
     disputed_transactions_log |-> EmptyMap]

\* `match account_data.get(&client_id)`: a clone of the stored account, or a
\* fresh one.
LookupAccount(account_data, c) ==
    IF IsSome(MapGet(account_data, c)) THEN account_data[c] ELSE NewAccount(c)

\* ------------------------------------------------- the five match arms
\* Each arm returns the mutated clone, the Result of the arm ("Ok", or
\* "InvalidData" when the arm returns early) and the diagnostic it logs.
Outcome(res, acct, dg) == [result |-> res, account |-> acct, diag |-> dg]

\* Mutant: the deposit overwrites the balance instead of adding to it.
DepositArm_Overwrite(account, t) ==
    IF IsSome(t.transaction_amount)
    THEN Outcome("Ok",
           [account EXCEPT
              !.available = Unwrap(t.transaction_amount),
              !.settled_transactions_log = MapInsert(@, t.transaction_id, t)],
           "none")
    ELSE Outcome("InvalidData", account, "none")

\* Mutant: a deposit whose id is already settled keeps the earlier record.
DepositArm_KeepsFirst(account, t) ==
    IF IsSome(t.transaction_amount)
    THEN Outcome("Ok",
           [account EXCEPT
              !.available = @ + Unwrap(t.transaction_amount),
              !.settled_transactions_log =
                  IF t.transaction_id \in DOMAIN @ THEN @
                  ELSE MapInsert(@, t.transaction_id, t)],
           "none")
    ELSE Outcome("InvalidData", account, "none")

\* Mutant: a deposit without amount is logged instead of rejected.
DepositArm_LogsMissing(account, t) ==
    IF IsSome(t.transaction_amount)
    THEN Outcome("Ok",
           [account EXCEPT
              !.available = @ + Unwrap(t.transaction_amount),
              !.settled_transactions_log = MapInsert(@, t.transaction_id, t)],
           "none")
    ELSE Outcome("Ok",
           [account EXCEPT
              !.settled_transactions_log = MapInsert(@, t.transaction_id, t)],
           "none")

DepositArm(account, t) ==
    IF IsSome(t.transaction_amount)
    THEN Outcome("Ok",
           [account EXCEPT
              !.available = @ + Unwrap(t.transaction_amount),
              !.settled_transactions_log = MapInsert(@, t.transaction_id, t)],
           "none")
    ELSE Outcome("InvalidData", account, "none")

\* Mutant: the sufficiency test is >= instead of >.
WithdrawalArm_AtLeast(account, t) ==
    IF IsSome(t.transaction_amount)
    THEN LET amount == Unwrap(t.transaction_amount) IN
         Outcome("Ok",
           [account EXCEPT
              !.available = IF account.available >= amount THEN @ - amount ELSE @,
              !.settled_transactions_log = MapInsert(@, t.transaction_id, t)],
           "none")
    ELSE Outcome("InvalidData", account, "none")

\* Mutant: only a withdrawal that was debited is logged.
WithdrawalArm_LogsApplied(account, t) ==
    IF IsSome(t.transaction_amount)
    THEN LET amount == Unwrap(t.transaction_amount) IN
         Outcome("Ok",
           IF account.available > amount
           THEN [account EXCEPT
                   !.available = @ - amount,
                   !.settled_transactions_log = MapInsert(@, t.transaction_id, t)]
           ELSE account,
           "none")
    ELSE Outcome("InvalidData", account, "none")

WithdrawalArm(account, t) ==
    IF IsSome(t.transaction_amount)
    THEN LET amount == Unwrap(t.transaction_amount) IN
         Outcome("Ok",
           [account EXCEPT
              !.available = IF account.available > amount THEN @ - amount ELSE @,
              !.settled_transactions_log = MapInsert(@, t.transaction_id, t)],
           "none")
    ELSE Outcome("InvalidData", account, "none")

\* Mutant: the chargeback moves the amount back to available, as the comment
\* copied from the Resolve arm says.
ChargebackArm_Credit(account, t) ==
    LET dropped_transaction == MapGet(account.disputed_transactions_log, t.transaction_id)
        removed == [account EXCEPT
                      !.disputed_transactions_log = MapRemove(@, t.transaction_id)]
    IN IF IsSome(dropped_transaction)
       THEN LET transaction == Unwrap(dropped_transaction) IN
            IF IsSome(transaction.transaction_amount)
            THEN Outcome("Ok",
                   [removed EXCEPT
                      !.held = @ - Unwrap(transaction.transaction_amount),
                      !.available = @ + Unwrap(transaction.transaction_amount)],
                   "none")
            ELSE Outcome("Ok", removed, "error")
       ELSE Outcome("Ok", removed, "warn")

\* Mutant: the chargeback locks the account before it looks the record up.
ChargebackArm_Locks(account, t) ==
    LET dropped_transaction == MapGet(account.disputed_transactions_log, t.transaction_id)
        removed == [account EXCEPT
                      !.locked = TRUE,
                      !.disputed_transactions_log = MapRemove(@, t.transaction_id)]
    IN IF IsSome(dropped_transaction)
       THEN LET transaction == Unwrap(dropped_transaction) IN
            IF IsSome(transaction.transaction_amount)
            THEN Outcome("Ok",
                   [removed EXCEPT !.held = @ - Unwrap(transaction.transaction_amount)],
                   "none")
            ELSE Outcome("Ok", removed, "error")
       ELSE Outcome("Ok", removed, "warn")

\* Mutant: the chargeback drops the disputed record and leaves held alone.
ChargebackArm_KeepsHeld(account, t) ==
    LET dropped_transaction == MapGet(account.disputed_transactions_log, t.transaction_id)
        removed == [account EXCEPT
                      !.disputed_transactions_log = MapRemove(@, t.transaction_id)]
    IN IF IsSome(dropped_transaction)
       THEN LET transaction == Unwrap(dropped_transaction) IN
            IF IsSome(transaction.transaction_amount)
            THEN Outcome("Ok", removed, "none")
            ELSE Outcome("Ok", removed, "error")
       ELSE Outcome("Ok", removed, "warn")

ChargebackArm(account, t) ==
    LET dropped_transaction == MapGet(account.disputed_transactions_log, t.transaction_id)
        removed == [account EXCEPT
                      !.disputed_transactions_log = MapRemove(@, t.transaction_id)]
    IN IF IsSome(dropped_transaction)
       THEN LET transaction == Unwrap(dropped_transaction) IN
            IF IsSome(transaction.transaction_amount)
            THEN Outcome("Ok",
                   [removed EXCEPT !.held = @ - Unwrap(transaction.transaction_amount)],
                   "none")
            ELSE Outcome("Ok", removed, "error")
       ELSE Outcome("Ok", removed, "warn")

\* Mutant: the dispute reads the settled record without removing it.
DisputeArm_KeepsSettled(account, t) ==
    LET unsettled_transaction == MapGet(account.settled_transactions_log, t.transaction_id)
    IN IF IsSome(unsettled_transaction)
       THEN LET transaction == Unwrap(unsettled_transaction) IN
            IF IsSome(transaction.transaction_amount)
            THEN LET amount == Unwrap(transaction.transaction_amount) IN
                 Outcome("Ok",
                   [account EXCEPT
                      !.disputed_transactions_log =
                          MapInsert(@, transaction.transaction_id, transaction),
                      !.available = @ - amount,
                      !.held = @ + amount],
                   "none")
            ELSE Outcome("Ok", account, "error")
       ELSE Outcome("Ok", account, "warn")

DisputeArm(account, t) ==
    LET unsettled_transaction == MapGet(account.settled_transactions_log, t.transaction_id)
        removed == [account EXCEPT
                      !.settled_transactions_log = MapRemove(@, t.transaction_id)]
    IN IF IsSome(unsettled_transaction)
       THEN LET transaction == Unwrap(unsettled_transaction) IN
            IF IsSome(transaction.transaction_amount)
            THEN LET amount == Unwrap(transaction.transaction_amount) IN
                 Outcome("Ok",
                   [removed EXCEPT
                      !.disputed_transactions_log =
                          MapInsert(@, transaction.transaction_id, transaction),
                      !.available = @ - amount,
                      !.held = @ + amount],
                   "none")
            ELSE Outcome("Ok", removed, "error")
       ELSE Outcome("Ok", removed, "warn")

\* Mutant: the resolve releases the held amount without crediting available.
ResolveArm_NoCredit(account, t) ==
    LET resettled_transaction == MapGet(account.disputed_transactions_log, t.transaction_id)
        removed == [account EXCEPT
                      !.disputed_transactions_log = MapRemove(@, t.transaction_id)]
    IN IF IsSome(resettled_transaction)
       THEN LET transaction == Unwrap(resettled_transaction) IN
            IF IsSome(transaction.transaction_amount)
            THEN LET amount == Unwrap(transaction.transaction_amount) IN
                 Outcome("Ok",
                   [removed EXCEPT
                      !.settled_transactions_log =
                          MapInsert(@, transaction.transaction_id, transaction),
                      !.held = @ - amount],
                   "none")
            ELSE Outcome("Ok", removed, "error")
       ELSE Outcome("Ok", removed, "warn")

ResolveArm(account, t) ==
    LET resettled_transaction == MapGet(account.disputed_transactions_log, t.transaction_id)
        removed == [account EXCEPT
                      !.disputed_transactions_log = MapRemove(@, t.transaction_id)]
    IN IF IsSome(resettled_transaction)
       THEN LET transaction == Unwrap(resettled_transaction) IN
            IF IsSome(transaction.transaction_amount)
            THEN LET amount == Unwrap(transaction.transaction_amount) IN
                 Outcome("Ok",
                   [removed EXCEPT
                      !.settled_transactions_log =
                          MapInsert(@, transaction.transaction_id, transaction),
                      !.available = @ + amount,
                      !.held = @ - amount],
                   "none")
            ELSE Outcome("Ok", removed, "error")
       ELSE Outcome("Ok", removed, "warn")

\* Mutant: the account is stored even when the arm failed.
StoreAccount_Always(account_data, o) ==
    MapInsert(account_data, o.account.client_id, o.account)

\* Mutant: the ledger is rebuilt from the one account instead of updated.
StoreAccount_Replace(account_data, o) ==
    IF o.result = "Ok"
    THEN MapInsert(EmptyMap, o.account.client_id, o.account)
    ELSE account_data

\* `account_data.insert(account.client_id, account)` at the end of
\* process_transaction: reached only when no arm returned early.
StoreAccount(account_data, o) ==
    IF o.result = "Ok"
    THEN MapInsert(account_data, o.account.client_id, o.account)
    ELSE account_data

\* process_transaction: the new ledger, the Result and the diagnostic.
process_transaction(account_data, t) ==
    LET account == LookupAccount(account_data, t.client_id)
        o == CASE t.transaction_type = DEPOSIT    -> DepositArm(account, t)
               [] t.transaction_type = WITHDRAWAL -> WithdrawalArm(account, t)
               [] t.transaction_type = CHARGEBACK -> ChargebackArm(account, t)
               [] t.transaction_type = DISPUTE    -> DisputeArm(account, t)
               [] t.transaction_type = RESOLVE    -> ResolveArm(account, t)
    IN [account_data |-> StoreAccount(account_data, o),
        result |-> o.result, diag |-> o.diag]


\* ------------------------------------------------------------------- state
VARIABLES
    account_data,     \* HashMap<ClientIdentifier, Account>: the ledger
    result,           \* Result of the last process_transaction call
    diag,             \* diagnostic the last call logged: none, warn, error
    last,             \* Option: the record the last call was given
    pre,              \* the ledger as it was before the last call
    before_dispute,   \* Option: balances before the call preceding the last
                      \*   one, when that call was a Dispute of a settled record
    net,              \* per client: deposits minus applied withdrawals so far
    pure,             \* per client: only Deposit/Withdrawal with amount so far
    n,                \* number of process_transaction calls so far
    charged,          \* <<client, tx>> a Chargeback took out of the disputed
                      \*   log, with no Deposit/Withdrawal of that id since
    uses,             \* per client and tx: Deposit/Withdrawal records that
                      \*   named the id so far, counted up to two
    charged_back,     \* per client: sum of the amounts Chargebacks took
                      \*   out of held so far
    pc,               \* position of run_transactions
    file,             \* the input file given to run_transactions
    transaction_data, \* Vec<Transaction> read from the file
    row,              \* number of rows the CSV reader has consumed
    applied,          \* the records process_transaction was called with, in order
    output,           \* the AccountViews publish serialised
    exit              \* what run_transactions returned (or "panic")

ledgerVars == <<account_data, result, diag, last, pre, before_dispute, net, pure, n,
                charged, uses, charged_back>>
runVars == <<pc, file, transaction_data, row, applied, output, exit>>
vars == <<account_data, result, diag, last, pre, before_dispute, net, pure, n, charged,
          uses, charged_back,
          pc, file, transaction_data, row, applied, output, exit>>

\* Records of the ledger state machine: Deposit/Withdrawal with the amount
\* present or absent, Dispute/Resolve/Chargeback with it absent.  Client 1
\* ranges over every transaction id and amount; client 2 is the bystander
\* whose records name a transaction id client 1 uses too.
AmountOpts(amts) == {NoneV} \cup {Some(a) : a \in amts}
RecordsOf(c, txs, amts) ==
    {Transaction(ty, c, tx, amt) :
        ty \in {DEPOSIT, WITHDRAWAL}, tx \in txs, amt \in AmountOpts(amts)}
    \cup
    {Transaction(ty, c, tx, NoneV) : ty \in {CHARGEBACK, DISPUTE, RESOLVE}, tx \in txs}
Records == RecordsOf(1, TxIds, Amounts) \cup RecordsOf(2, {1}, {1})

\* Balances of a client before a Dispute that finds its record settled.
DisputeSnapshot(ledger, rec) ==
    IF IsSome(rec) /\ Unwrap(rec).transaction_type = DISPUTE
    THEN LET t == Unwrap(rec)
             a == LookupAccount(ledger, t.client_id)
         IN IF t.transaction_id \in DOMAIN a.settled_transactions_log
            THEN Some([client_id |-> t.client_id,
                       transaction_id |-> t.transaction_id,
                       available |-> a.available, held |-> a.held,
                       amount |-> a.settled_transactions_log[t.transaction_id].transaction_amount])
            ELSE NoneV
    ELSE NoneV

IsAmountRecord(t) ==
    t.transaction_type \in {DEPOSIT, WITHDRAWAL} /\ IsSome(t.transaction_amount)

\* Bookkeeping of the sums the balance is compared with: a deposit adds its
\* amount, a withdrawal subtracts it when available > amount at the time.
NetAfter(t) ==
    LET c == t.client_id
        available == LookupAccount(account_data, c).available
    IN IF ~IsAmountRecord(t) THEN net
       ELSE IF t.transaction_type = DEPOSIT
            THEN [net EXCEPT ![c] = @ + Unwrap(t.transaction_amount)]
            ELSE IF available > Unwrap(t.transaction_amount)
                 THEN [net EXCEPT ![c] = @ - Unwrap(t.transaction_amount)]
                 ELSE net

\* Bookkeeping of the transactions charged back: a Chargeback that finds its
\* transaction in the disputed log records it, a Deposit or Withdrawal of the
\* same client and id forgets it.
ChargedAfter(t) ==
    LET key == <<t.client_id, t.transaction_id>>
        account == LookupAccount(account_data, t.client_id)
    IN IF t.transaction_type \in {DEPOSIT, WITHDRAWAL} THEN charged \ {key}
       ELSE IF /\ t.transaction_type = CHARGEBACK
               /\ t.transaction_id \in DOMAIN account.disputed_transactions_log
            THEN charged \cup {key}
            ELSE charged

\* Bookkeeping of the ids Deposit and Withdrawal records have named.
UsesAfter(t) ==
    IF t.transaction_type \in {DEPOSIT, WITHDRAWAL}
    THEN [uses EXCEPT ![t.client_id][t.transaction_id] = IF @ = 0 THEN 1 ELSE 2]
    ELSE uses

\* Bookkeeping of the amounts charged back: a Chargeback that finds its
\* transaction in the disputed log adds the amount of the record held there.
ChargedBackAfter(t) ==
    LET account == LookupAccount(account_data, t.client_id)
        log == account.disputed_transactions_log
    IN IF /\ t.transaction_type = CHARGEBACK
          /\ t.transaction_id \in DOMAIN log
          /\ IsSome(log[t.transaction_id].transaction_amount)
       THEN [charged_back EXCEPT
               ![t.client_id] = @ + Unwrap(log[t.transaction_id].transaction_amount)]
       ELSE charged_back

\* One call process_transaction(&mut account_data, &t).
Apply(t) ==
    LET r == process_transaction(account_data, t) IN
    /\ account_data' = r.account_data
    /\ result' = r.result
    /\ diag' = r.diag
    /\ last' = Some(t)
    /\ pre' = account_data
    /\ before_dispute' = DisputeSnapshot(pre, last)
    /\ net' = NetAfter(t)
    /\ pure' = [pure EXCEPT ![t.client_id] = @ /\ IsAmountRecord(t)]
    /\ n' = n + 1
    /\ charged' = ChargedAfter(t)
    /\ uses' = UsesAfter(t)
    /\ charged_back' = ChargedBackAfter(t)

InitLedger ==
    /\ account_data = EmptyMap
    /\ result = "Ok"
    /\ diag = "none"
    /\ last = NoneV
    /\ pre = EmptyMap
    /\ before_dispute = NoneV
    /\ net = [c \in Clients |-> 0]
    /\ pure = [c \in Clients |-> TRUE]
    /\ n = 0
    /\ charged = {}
    /\ uses = [c \in Clients |-> [tx \in TxIds |-> 0]]
    /\ charged_back = [c \in Clients |-> 0]

IdleRun ==
    /\ pc = "test"
    /\ file = NoneV
    /\ transaction_data = <<>>
    /\ row = 0
    /\ applied = <<>>
    /\ output = NoneV
    /\ exit = "running"

\* ------------------------------------- Spec: the ledger state machine
Init == InitLedger /\ IdleRun

ProcessRecord ==
    /\ n < MaxRecords
    /\ \E t \in Records : Apply(t)
    /\ UNCHANGED runVars

Next == ProcessRecord

Spec == Init /\ [][Next]_vars

\* ------------------- SpecLifecycle: longer histories of one transaction id
\* The records of client 1 that name transaction 1, with the smallest and the
\* largest positive amount.
LifecycleRecords == RecordsOf(1, {1}, {1, MaxAmount})

ProcessLifecycle ==
    /\ n < MaxLifecycle
    /\ \E t \in LifecycleRecords : Apply(t)
    /\ UNCHANGED runVars

NextLifecycle == ProcessLifecycle

SpecLifecycle == Init /\ [][NextLifecycle]_vars


\* ------------------------------------------- SpecRun: run_transactions
MB_THRESHOLD == 2
MAX_DATA_FILE_SIZE_MB == 1024 * 1024 * MB_THRESHOLD

\* A row of the input as the CSV reader sees it, after trimming: the text of
\* the type field, the numbers written in the client and tx fields, and the
\* amount field, which is empty, a decimal, or text that is no decimal.
RawRow(ty, c, tx, amt) == [type |-> ty, client |-> c, tx |-> tx, amount |-> amt]
EmptyField == [kind |-> "empty"]
DecimalField(v) == [kind |-> "decimal", value |-> v]
TextField == [kind |-> "text"]

\* #[serde(rename_all = "lowercase")] on TransactionType
ParseType(s) ==
    CASE s = "deposit"    -> Some(DEPOSIT)
      [] s = "withdrawal" -> Some(WITHDRAWAL)
      [] s = "chargeback" -> Some(CHARGEBACK)
      [] s = "dispute"    -> Some(DISPUTE)
      [] s = "resolve"    -> Some(RESOLVE)
      [] OTHER            -> NoneV

\* ClientIdentifier = u16
ParseClient(v) == IF v \in 0 .. 65535 THEN Some(v) ELSE NoneV
\* TransactionIdentifier = u32 (the model never writes a tx above 2^32 - 1)
ParseTx(v) == IF v >= 0 THEN Some(v) ELSE NoneV
\* Option<ValueAmount>: an empty field is None, a decimal is Some
ParseAmount(f) ==
    CASE f.kind = "empty"   -> Some(NoneV)
      [] f.kind = "decimal" -> Some(Some(f.value))
      [] OTHER              -> NoneV

\* One item of reader.deserialize(): Some(Transaction), or None for Err.
Deserialize(raw) ==
    IF /\ IsSome(ParseType(raw.type))
       /\ IsSome(ParseClient(raw.client))
       /\ IsSome(ParseTx(raw.tx))
       /\ IsSome(ParseAmount(raw.amount))
    THEN Some(Transaction(Unwrap(ParseType(raw.type)), Unwrap(ParseClient(raw.client)),
                          Unwrap(ParseTx(raw.tx)), Unwrap(ParseAmount(raw.amount))))
    ELSE NoneV

\* The body of the loop of read_transaction_data: push on Ok, log on Err.
ReadStep(transactions, csv_result) ==
    IF IsSome(csv_result) THEN Append(transactions, Unwrap(csv_result))
    ELSE transactions

\* Mutant: the records are taken from the back of the vector.
NextTransaction_Reversed(transactions, k) == transactions[Len(transactions) - k]

\* The record the iterator of run_transactions hands to the (k+1)-th call.
NextTransaction(transactions, k) == transactions[k + 1]

\* impl From<Account> for AccountView
\* Mutant: the view reports available alone as the total.
AccountView_TotalAvailable(value) ==
    [client_id |-> value.client_id, available |-> value.available,
     held |-> value.held, total |-> value.available,
     locked |-> value.locked]

AccountView(value) ==
    [client_id |-> value.client_id, available |-> value.available,
     held |-> value.held, total |-> value.available + value.held,
     locked |-> value.locked]

\* The rows input files are made of: well-formed records of two clients and
\* rows the deserializer rejects (unknown type, client above u16, amount that
\* is no decimal).
RawRows ==
    { RawRow("deposit", 1, 1, DecimalField(2)),
      RawRow("withdrawal", 1, 2, DecimalField(1)),
      RawRow("dispute", 1, 1, EmptyField),
      RawRow("resolve", 1, 1, EmptyField),
      RawRow("chargeback", 1, 1, EmptyField),
      RawRow("deposit", 2, 1, EmptyField),
      RawRow("dispute", 2, 1, EmptyField),
      RawRow("transfer", 1, 1, DecimalField(2)),
      RawRow("deposit", 65536, 1, DecimalField(2)),
      RawRow("deposit", 1, 2, TextField) }

SeqsUpTo(S, k) == UNION {[1 .. m -> S] : m \in 0 .. k}
FileSizes == {MAX_DATA_FILE_SIZE_MB, MAX_DATA_FILE_SIZE_MB + 1}
Files == [size : FileSizes, rows : SeqsUpTo(RawRows, MaxRows)]

InitRun ==
    /\ InitLedger
    /\ pc = "validate"
    /\ file \in Files
    /\ transaction_data = <<>>
    /\ row = 0
    /\ applied = <<>>
    /\ output = NoneV
    /\ exit = "running"

Finish(status) ==
    /\ pc' = "done"
    /\ exit' = status
    /\ UNCHANGED <<file, transaction_data, row, applied, output>>
    /\ UNCHANGED ledgerVars

Goto(label) ==
    /\ pc' = label
    /\ UNCHANGED <<file, transaction_data, row, applied, output, exit>>
    /\ UNCHANGED ledgerVars

\* Mutant: a file of exactly the maximum size is rejected too.
ExceedsMaximum_AtLeast(len) == len >= MAX_DATA_FILE_SIZE_MB

\* `metadata.len() > MAX_DATA_FILE_SIZE_MB`
ExceedsMaximum(len) == len > MAX_DATA_FILE_SIZE_MB

\* pre_validate_input_file: File::open or metadata() failing panics; a size
\* above the maximum returns InvalidData; otherwise Ok.
PreValidateOpenFails == pc = "validate" /\ Finish("panic")
PreValidateMetadataFails == pc = "validate" /\ Finish("panic")
PreValidateTooLarge ==
    pc = "validate" /\ ExceedsMaximum(file.size) /\ Finish("InvalidData")
PreValidateOk ==
    pc = "validate" /\ ~ExceedsMaximum(file.size) /\ Goto("open")

\* read_transaction_data: the second File::open, then one row per step.
ReadOpenFails == pc = "open" /\ Finish("FileAccess")
ReadOpenOk == pc = "open" /\ Goto("read")
ReadRow ==
    /\ pc = "read"
    /\ row < Len(file.rows)
    /\ row' = row + 1
    /\ transaction_data' = ReadStep(transaction_data, Deserialize(file.rows[row + 1]))
    /\ UNCHANGED <<pc, file, applied, output, exit>>
    /\ UNCHANGED ledgerVars
ReadDone == pc = "read" /\ row = Len(file.rows) /\ Goto("process")

\* Mutant: the Results are collected into a Result and propagated with `?`,
\* so the first Err ends the run.
Collect_Propagates(res) ==
    IF res = "Ok" THEN [pc |-> "process", exit |-> "running"]
    ELSE [pc |-> "done", exit |-> res]

\* What run_transactions does with the Result of one call: it is collected
\* into a Vec<Result> bound to `_`, so the map goes on whatever it is.
Collect(res) == [pc |-> "process", exit |-> "running"]

\* The map over transaction_data.iter(), driven by collect: one call of
\* process_transaction per record; the Results are collected and dropped.
ProcessNext ==
    /\ pc = "process"
    /\ n < Len(transaction_data)
    /\ Apply(NextTransaction(transaction_data, n))
    /\ applied' = Append(applied, NextTransaction(transaction_data, n))
    /\ LET c == Collect(process_transaction(account_data,
                                            NextTransaction(transaction_data, n)).result)
       IN pc' = c.pc /\ exit' = c.exit
    /\ UNCHANGED <<file, transaction_data, row, output>>
ProcessDone == pc = "process" /\ n = Len(transaction_data) /\ Goto("publish")

\* publish: one AccountView per account, in the map's order (a set here).
\* Writing to the in-memory buffer does not fail, so the CSV errors of
\* publish are not modelled.
Publish ==
    /\ pc = "publish"
    /\ output' = Some({AccountView(account_data[c]) : c \in DOMAIN account_data})
    /\ pc' = "done"
    /\ exit' = "Ok"
    /\ UNCHANGED <<file, transaction_data, row, applied>>
    /\ UNCHANGED ledgerVars

NextRun ==
    \/ PreValidateOpenFails
    \/ PreValidateMetadataFails
    \/ PreValidateTooLarge
    \/ PreValidateOk
    \/ ReadOpenFails
    \/ ReadOpenOk
    \/ ReadRow
    \/ ReadDone
    \/ ProcessNext
    \/ ProcessDone
    \/ Publish

SpecRun == InitRun /\ [][NextRun]_vars

\* run_transactions is sequential code on one thread: a step that can be
\* taken is taken.
SpecRunFair == InitRun /\ [][NextRun]_vars /\ WF_vars(NextRun)

\* ------------------------------------------- reading the last call back
Last == Unwrap(last)
\* The account of the last record's client before and after the call.
Before == LookupAccount(pre, Last.client_id)
After == LookupAccount(account_data, Last.client_id)
LastIs(ty) == IsSome(last) /\ Last.transaction_type = ty
Total(a) == a.available + a.held

\* C1: starting from the empty ledger, while a client has seen only Deposit
\* and Withdrawal records with the amount present, its available equals the
\* sum of the deposits minus the sum of the withdrawals that were applied
\* (available > amount at the time), and its held is 0.
C1_DepositWithdrawalSum ==
    \A c \in DOMAIN account_data :
        pure[c] => /\ account_data[c].available = net[c]
                   /\ account_data[c].held = 0

\* A third record of such a sequence: a withdrawal that was applied after a
\* deposit and another record.
C1_Witness ==
    /\ LastIs(WITHDRAWAL)
    /\ pure[Last.client_id]
    /\ n >= 3
    /\ After.available < Before.available
    /\ After.available > 0

C3_DisputeSettled ==
    (LastIs(DISPUTE) /\ Last.transaction_id \in DOMAIN Before.settled_transactions_log) =>
        LET tx == Last.transaction_id
            rec == Before.settled_transactions_log[tx]
        IN /\ result = "Ok"
           /\ IsSome(rec.transaction_amount)
           /\ tx \notin DOMAIN After.settled_transactions_log
           /\ tx \in DOMAIN After.disputed_transactions_log
           /\ After.disputed_transactions_log[tx] = rec
           /\ After.available = Before.available - Unwrap(rec.transaction_amount)
           /\ After.held = Before.held + Unwrap(rec.transaction_amount)
           /\ After.locked = Before.locked

\* A dispute of a settled record with a positive amount.
C3_Witness ==
    /\ LastIs(DISPUTE)
    /\ Last.transaction_id \in DOMAIN Before.settled_transactions_log
    /\ Unwrap(Before.settled_transactions_log[Last.transaction_id].transaction_amount) > 0
    /\ Before.available # 0

\* The last two calls were Dispute(tx) of a settled record and then a record
\* of type ty naming the same client and tx.
DisputeThen(ty) ==
    /\ IsSome(before_dispute)
    /\ LastIs(ty)
    /\ Last.client_id = Unwrap(before_dispute).client_id
    /\ Last.transaction_id = Unwrap(before_dispute).transaction_id

\* C4: Dispute(tx) of a settled record immediately followed by Resolve(tx)
\* leaves available and held equal to their values before the Dispute, with
\* tx in the settled log and not in the disputed log.
C4_DisputeResolveRoundTrip ==
    DisputeThen(RESOLVE) =>
        /\ After.available = Unwrap(before_dispute).available
        /\ After.held = Unwrap(before_dispute).held
        /\ Last.transaction_id \in DOMAIN After.settled_transactions_log
        /\ Last.transaction_id \notin DOMAIN After.disputed_transactions_log

\* A round trip of a positive amount on an account that had been debited.
C4_Witness ==
    /\ DisputeThen(RESOLVE)
    /\ Unwrap(Unwrap(before_dispute).amount) > 0
    /\ Before.held > 0
    /\ Before.available # After.available

UnknownReference ==
    \/ /\ LastIs(DISPUTE)
       /\ Last.transaction_id \notin DOMAIN Before.settled_transactions_log
    \/ /\ IsSome(last)
       /\ Last.transaction_type \in {RESOLVE, CHARGEBACK}
       /\ Last.transaction_id \notin DOMAIN Before.disputed_transactions_log

\* C6 as stated: an unknown reference returns Ok and changes nothing in the
\* ledger.
C6_UnknownReferenceNoChange ==
    UnknownReference => (result = "Ok" /\ account_data = pre)

\* C6 amended: an unknown reference returns Ok, leaves the client's account
\* as it was when the client has one and otherwise stores a fresh account
\* (zero balances, unlocked, empty logs) for the client; nothing else in the
\* ledger changes.
C6_UnknownReferenceFrame ==
    UnknownReference =>
        /\ result = "Ok"
        /\ DOMAIN account_data = DOMAIN pre \cup {Last.client_id}
        /\ \A c \in DOMAIN pre : account_data[c] = pre[c]
        /\ Last.client_id \notin DOMAIN pre =>
               account_data[Last.client_id] =
                   [client_id |-> Last.client_id, available |-> 0, held |-> 0,
                    locked |-> FALSE, settled_transactions_log |-> <<>>,
                    disputed_transactions_log |-> <<>>]

\* An unknown reference on an account that holds funds and a settled record.
C6_Witness ==
    /\ UnknownReference
    /\ Last.client_id \in DOMAIN pre
    /\ Before.available > 0
    /\ DOMAIN Before.settled_transactions_log # {}

\* C7: a Deposit or Withdrawal with the amount absent returns InvalidData
\* and the ledger (accounts, balances, lock flags, logs) is as before.
C7_MissingAmount ==
    (IsSome(last) /\ Last.transaction_type \in {DEPOSIT, WITHDRAWAL}
       /\ ~IsSome(Last.transaction_amount)) =>
        (result = "InvalidData" /\ account_data = pre)

\* A deposit without amount for a client that has no account yet, in a
\* ledger that holds another account.
C7_Witness ==
    /\ LastIs(DEPOSIT)
    /\ ~IsSome(Last.transaction_amount)
    /\ Last.client_id \notin DOMAIN pre
    /\ DOMAIN pre # {}

\* C8: in every account the settled log and the disputed log hold no
\* transaction id in common.
C8_LogsDisjoint ==
    \A c \in DOMAIN account_data :
        DOMAIN account_data[c].settled_transactions_log
            \cap DOMAIN account_data[c].disputed_transactions_log = {}

\* C9: a call changes at most the account of the record's client: every
\* other account is as before and no other account appears or disappears.
C9_OnlyOwnAccount ==
    IsSome(last) =>
        /\ DOMAIN account_data \ {Last.client_id} = DOMAIN pre \ {Last.client_id}
        /\ \A c \in DOMAIN pre \ {Last.client_id} : account_data[c] = pre[c]

\* A Dispute, Resolve or Chargeback by one client naming a transaction id
\* found only in the logs of another client's account.
C9_Witness ==
    /\ IsSome(last)
    /\ Last.transaction_type \in {DISPUTE, RESOLVE, CHARGEBACK}
    /\ Last.transaction_id \notin DOMAIN Before.settled_transactions_log
    /\ Last.transaction_id \notin DOMAIN Before.disputed_transactions_log
    /\ \E c \in DOMAIN pre \ {Last.client_id} :
          /\ Last.transaction_id \in DOMAIN pre[c].settled_transactions_log
          /\ pre[c].available > 0


\* The rows of the input the deserializer accepts, deserialized, in order.
RECURSIVE WellFormedRows(_)
WellFormedRows(rows) ==
    IF rows = <<>> THEN <<>>
    ELSE LET rest == WellFormedRows(Tail(rows)) IN
         IF /\ Head(rows).type \in {"deposit", "withdrawal", "dispute", "resolve", "chargeback"}
            /\ Head(rows).client \in 0 .. 65535
            /\ Head(rows).tx >= 0
            /\ Head(rows).amount.kind \in {"empty", "decimal"}
         THEN <<Deserialize(Head(rows))[1]>> \o rest
         ELSE rest

\* C10: the records process_transaction is called with are the well-formed
\* rows of the input, in the input's order, each once: while processing they
\* are a prefix of them, and all of them once processing is over; a run that
\* got past validation and opening ends Ok whatever rows were malformed.
C10_AppliedInInputOrder ==
    pc \in {"process", "publish", "done"} /\ exit \in {"running", "Ok"} =>
        /\ Len(applied) <= Len(WellFormedRows(file.rows))
        /\ applied = SubSeq(WellFormedRows(file.rows), 1, Len(applied))
        /\ Len(applied) = n
        /\ pc \in {"publish", "done"} => applied = WellFormedRows(file.rows)

\* A finished run over a file with a malformed row between two well-formed
\* rows whose order matters (a deposit and its dispute).
C10_Witness ==
    /\ pc = "done"
    /\ exit = "Ok"
    /\ Len(file.rows) = 3
    /\ Len(applied) = 2
    /\ ~IsSome(Deserialize(file.rows[2]))
    /\ applied[1].transaction_type = DEPOSIT
    /\ applied[2].transaction_type = DISPUTE
    /\ applied[1].client_id \in DOMAIN account_data
    /\ account_data[applied[1].client_id].held > 0


\* Some record before the last one applied was a Deposit or Withdrawal
\* without amount, the failure process_transaction returns as InvalidData.
FailedBeforeLast ==
    \E i \in 1 .. Len(applied) - 1 :
        /\ applied[i].transaction_type \in {DEPOSIT, WITHDRAWAL}
        /\ ~IsSome(applied[i].transaction_amount)

C13_FileAccessReturned ==
    [][(PreValidateOpenFails \/ PreValidateMetadataFails \/ ReadOpenFails) =>
          (pc' = "done" /\ exit' = "FileAccess" /\ n' = 0)]_vars


\* The clients named by the records processed so far, and those named by a
\* processed record other than a Deposit or Withdrawal without amount.
ClientsSeen == {applied[i].client_id : i \in 1 .. Len(applied)}
ClientsAccepted ==
    {applied[i].client_id :
        i \in {j \in 1 .. Len(applied) :
                  ~(/\ applied[j].transaction_type \in {DEPOSIT, WITHDRAWAL}
                    /\ ~IsSome(applied[j].transaction_amount))}}
ReportedClients == {v.client_id : v \in Unwrap(output)}

\* C14 as stated: at the end of the batch the ledger and the report hold
\* exactly one account per client named by any processed record, and an
\* account is never removed.
C14_AccountPerClientSeen ==
    /\ DOMAIN pre \subseteq DOMAIN account_data
    /\ (pc = "done" /\ exit = "Ok") =>
          /\ DOMAIN account_data = ClientsSeen
          /\ ReportedClients = ClientsSeen
          /\ Cardinality(Unwrap(output)) = Cardinality(ClientsSeen)

\* C14 amended: the ledger holds exactly the clients named by a processed
\* record other than a Deposit or Withdrawal without amount, at every point
\* of the batch; the report holds one row for each of them; an account is
\* never removed.
C14_AccountPerClientAccepted ==
    /\ DOMAIN pre \subseteq DOMAIN account_data
    /\ pc \in {"process", "publish", "done"} => DOMAIN account_data = ClientsAccepted
    /\ (pc = "done" /\ exit = "Ok") =>
          /\ ReportedClients = ClientsAccepted
          /\ Cardinality(Unwrap(output)) = Cardinality(ClientsAccepted)

\* A finished batch with two accounts in which a record without amount was
\* processed.
C14_Witness ==
    /\ pc = "done"
    /\ exit = "Ok"
    /\ Cardinality(ReportedClients) = 2
    /\ \E i \in 1 .. Len(applied) :
          /\ applied[i].transaction_type = DEPOSIT
          /\ ~IsSome(applied[i].transaction_amount)


\* C15: in the report of a finished batch every row belongs to an account of
\* the ledger and every account has a row with the account's client_id,
\* available, held and locked, whose total is available + held of that
\* account.
C15_ViewMatchesAccount ==
    (pc = "done" /\ exit = "Ok") =>
        /\ \A v \in Unwrap(output) :
              /\ v.client_id \in DOMAIN account_data
              /\ v.available = account_data[v.client_id].available
              /\ v.held = account_data[v.client_id].held
              /\ v.locked = account_data[v.client_id].locked
              /\ v.total = Total(account_data[v.client_id])
        /\ \A c \in DOMAIN account_data : \E v \in Unwrap(output) : v.client_id = c

\* A report with a row whose total differs from both available and held.
C15_Witness ==
    /\ pc = "done"
    /\ exit = "Ok"
    /\ \E v \in Unwrap(output) :
          /\ v.held > 0
          /\ v.available # 0
          /\ v.total = Total(account_data[v.client_id])


\* The last record processed broke a business rule: its amount is missing
\* where one is required, or it refers to a transaction the log it is looked
\* up in does not hold.
MissingAmount ==
    /\ IsSome(last)
    /\ Last.transaction_type \in {DEPOSIT, WITHDRAWAL}
    /\ ~IsSome(Last.transaction_amount)
RuleViolation == MissingAmount \/ UnknownReference

\* C16: every record of a batch that breaks a business rule is observable:
\* its processing logged a diagnostic, or its outcome is surfaced by the run.
C16_ViolationObservable ==
    (pc \in {"process", "publish", "done"} /\ RuleViolation) =>
        (diag # "none" \/ exit = result)


\* C17: a Withdrawal with an amount is in the client's settled log under its
\* transaction id after the call, whether or not it was debited; no
\* Withdrawal changes held, locked or the disputed log.
C17_WithdrawalLogged ==
    LastIs(WITHDRAWAL) =>
        /\ IsSome(Last.transaction_amount) =>
              /\ Last.client_id \in DOMAIN account_data
              /\ Last.transaction_id \in DOMAIN After.settled_transactions_log
              /\ After.settled_transactions_log[Last.transaction_id] = Last
        /\ After.held = Before.held
        /\ After.locked = Before.locked
        /\ After.disputed_transactions_log = Before.disputed_transactions_log

\* A withdrawal of a positive amount that was not debited and is logged all
\* the same, on an account holding funds.
C17_Witness ==
    /\ LastIs(WITHDRAWAL)
    /\ IsSome(Last.transaction_amount)
    /\ Unwrap(Last.transaction_amount) > 0
    /\ After.available = Before.available
    /\ Before.held > 0
    /\ Last.transaction_id \notin DOMAIN Before.settled_transactions_log
    /\ Last.transaction_id \in DOMAIN After.settled_transactions_log


C19_ChargebackTerminal ==
    [][/\ (/\ n' = n + 1
           /\ LastIs(CHARGEBACK)'
           /\ Last'.transaction_id \in DOMAIN Before'.disputed_transactions_log)
          => /\ Last'.transaction_id \notin DOMAIN After'.disputed_transactions_log
             /\ After'.settled_transactions_log = Before'.settled_transactions_log
       /\ (/\ n' = n + 1
           /\ Last'.transaction_type \in {DISPUTE, RESOLVE, CHARGEBACK}
           /\ <<Last'.client_id, Last'.transaction_id>> \in charged)
          => account_data' = account_data]_vars


\* C20: a Deposit with an amount whose transaction id is already a key of the
\* client's settled log returns Ok, adds its amount to available and replaces
\* the entry of that id by the new record; the other entries, held, locked
\* and the disputed log stay as they were.
C20_DuplicateDepositReplaces ==
    (/\ LastIs(DEPOSIT)
     /\ IsSome(Last.transaction_amount)
     /\ Last.transaction_id \in DOMAIN Before.settled_transactions_log)
    => /\ result = "Ok"
       /\ After.available = Before.available + Unwrap(Last.transaction_amount)
       /\ After.settled_transactions_log =
             [Before.settled_transactions_log EXCEPT ![Last.transaction_id] = Last]
       /\ After.held = Before.held
       /\ After.locked = Before.locked
       /\ After.disputed_transactions_log = Before.disputed_transactions_log

\* A deposit that replaced a settled record of another amount.
C20_Witness ==
    /\ LastIs(DEPOSIT)
    /\ IsSome(Last.transaction_amount)
    /\ Last.transaction_id \in DOMAIN Before.settled_transactions_log
    /\ Before.settled_transactions_log[Last.transaction_id] # Last
    /\ After.settled_transactions_log[Last.transaction_id] = Last
    /\ After.available > Before.available


\* A log of the account of client c holds only Deposit and Withdrawal records
\* with their amount, each under its own transaction id and naming client c.
LogWellFormed(log, c) ==
    \A tx \in DOMAIN log :
        /\ log[tx].transaction_type \in {DEPOSIT, WITHDRAWAL}
        /\ IsSome(log[tx].transaction_amount)
        /\ log[tx].transaction_id = tx
        /\ log[tx].client_id = c

\* C21: in every reachable state both logs of every account hold only
\* Deposit and Withdrawal records with their amount, stored under their own
\* transaction id and naming the account's client, and every account is
\* stored under its own client id; hence no call takes the "found in a log
\* but amount missing" branch, the only one that logs an error.
C21_LogsWellFormed ==
    /\ \A c \in DOMAIN account_data :
          /\ account_data[c].client_id = c
          /\ LogWellFormed(account_data[c].settled_transactions_log, c)
          /\ LogWellFormed(account_data[c].disputed_transactions_log, c)
    /\ diag # "error"

\* A Dispute that found its record, on an account with entries in both logs
\* afterwards.
C21_Witness ==
    /\ LastIs(DISPUTE)
    /\ Last.transaction_id \in DOMAIN Before.settled_transactions_log
    /\ diag = "none"
    /\ DOMAIN After.settled_transactions_log # {}
    /\ DOMAIN After.disputed_transactions_log # {}


\* The sum of the amounts of the records of a log.
RECURSIVE SumAmounts(_)
SumAmounts(log) ==
    IF DOMAIN log = {} THEN 0
    ELSE LET tx == CHOOSE x \in DOMAIN log : TRUE
         IN Unwrap(log[tx].transaction_amount) + SumAmounts(MapRemove(log, tx))

\* No two Deposit/Withdrawal records of one client have named the same id.
UniqueIds == \A c \in Clients : \A tx \in TxIds : uses[c][tx] < 2

\* C22: while no two Deposit/Withdrawal records of the same client share a
\* transaction id, held of every account is the sum of the amounts of the
\* records in its disputed log.
C22_HeldIsDisputedSum ==
    UniqueIds =>
        \A c \in DOMAIN account_data :
            account_data[c].held = SumAmounts(account_data[c].disputed_transactions_log)

\* Two records of one account under dispute at once, with distinct ids
\* throughout.
C22_Witness ==
    /\ UniqueIds
    /\ \E c \in DOMAIN account_data :
          /\ Cardinality(DOMAIN account_data[c].disputed_transactions_log) = 2
          /\ account_data[c].held > 0
          /\ account_data[c].held = SumAmounts(account_data[c].disputed_transactions_log)


NonNegativeBatch ==
    \A i \in 1 .. Len(transaction_data) :
        IsSome(transaction_data[i].transaction_amount)
            => Unwrap(transaction_data[i].transaction_amount) >= 0

\* C24: while a batch whose amounts are all non-negative is processed, and
\* after it, available of every account is zero or more.
C24_AvailableNonNegative ==
    (pc \in {"process", "publish", "done"} /\ NonNegativeBatch) =>
        \A c \in DOMAIN account_data : account_data[c].available >= 0

=============================================================================
